---- MODULE Spec2Model ----
(***************************************************************************)
(* Sparse Merkle tree: the offchain engines SparseMerkleTree (index        *)
(* addressed) and SparseMerkleTreeKV (key addressed), and the onchain      *)
(* verifier library with its consumer contract.                            *)
(*                                                                         *)
(* A 256-bit number is a tagged tuple: <<"n", k>> is the bigint k that a   *)
(* caller supplied, <<"k", a, b>> is the keccak-256 digest of the inputs   *)
(* a, b.  Digests are therefore collision free and never equal a number    *)
(* a caller typed in.  A string is the sequence of its characters.         *)
(***************************************************************************)
EXTENDS Integers, Sequences, FiniteSets, TLC

\* ------------------------------------------------------------------ bounds
\* largest depth a SparseMerkleTree is constructed with
MaxDepth == 2
\* depth of the key-addressed tree (256 in lib/SparseMerkleTreeKV.ts:3; the
\* digest width of the model is scaled down with it)
SMT_DEPTH == 2
\* caller-supplied values are the numbers 0..MaxVal
MaxVal == 1
\* caller-supplied keys are the numbers 0..MaxKey
MaxKey == 2
\* number of successful insert/update calls in one behaviour
MaxOps == 4
\* number of successful direct calls of a contract's update in one behaviour
MaxCalls == 2

\* ------------------------------------------------------------- primitives
ZERO == <<"n", 0>>

Num(k) == <<"n", k>>

IsNum(d) == d[1] = "n"

ToNat(d) == d[2]

Pow2(k) == 2 ^ k

\* (n >> k) & 1n
Bit(n, k) == (n \div Pow2(k)) % 2

Null == <<>>

Undefined == <<"undefined">>

HexLower == <<"0", "1", "2", "3", "4", "5", "6", "7", "8", "9", "a", "b", "c", "d", "e", "f">>

HexUpper == <<"0", "1", "2", "3", "4", "5", "6", "7", "8", "9", "A", "B", "C", "D", "E", "F">>

IsHexChar(c) == \E k \in 1..16 : HexLower[k] = c \/ HexUpper[k] = c

HexVal(c) == (CHOOSE k \in 1..16 : HexLower[k] = c \/ HexUpper[k] = c) - 1

\* input.toString(16)
RECURSIVE toString16(_)
toString16(n) ==
    IF n < 16 THEN <<HexLower[n + 1]>>
    ELSE toString16(n \div 16) \o <<HexLower[(n % 16) + 1]>>

\* 32 * 2 hex digits
PadLen == 64

Zeros8 == <<"0", "0", "0", "0", "0", "0", "0", "0">>

\* PadLen characters '0'
ZeroPad == Zeros8 \o Zeros8 \o Zeros8 \o Zeros8 \o Zeros8 \o Zeros8 \o Zeros8 \o Zeros8

\* hexRaw.padStart(PadLen, '0')
padStart(s) == IF Len(s) >= PadLen THEN s ELSE SubSeq(ZeroPad, 1, PadLen - Len(s)) \o s

\* the hex digits s[from..], most significant first, added to acc
RECURSIVE parseHex(_, _, _)
parseHex(s, from, acc) ==
    IF from > Len(s) THEN acc
    ELSE parseHex(s, from + 1, acc * 16 + HexVal(s[from]))

\* position of the first digit after "0x" that is not a leading zero
FirstDigit(s) ==
    IF \A k \in 3..Len(s) : s[k] = "0" THEN Len(s)
    ELSE CHOOSE k \in 3..Len(s) : s[k] # "0" /\ \A m \in 3..(k - 1) : s[m] = "0"

\* BigInt(input) of a hex string: leading zeros add nothing
BigInt(s) == parseHex(s, FirstDigit(s), 0)

\* a string that holds the 64 hex digits of a keccak digest d
DigestString(d) == <<"0", "x", "#", d>>

IsDigestString(s) == Len(s) = 4 /\ s[1] = "0" /\ s[2] = "x" /\ s[3] = "#"

\* /^0x[0-9a-fA-F]+$/.test(input)
isHex(s) ==
    \/ IsDigestString(s)
    \/ /\ Len(s) >= 3
       /\ s[1] = "0"
       /\ s[2] = "x"
       /\ \A k \in 3..Len(s) : IsHexChar(s[k])

\* deserialise: hexstring -> bigint, throws on a string that is not hex
deserialise(input) ==
    IF ~isHex(input) THEN [threw |-> TRUE, val |-> ZERO]
    ELSE IF IsDigestString(input) THEN [threw |-> FALSE, val |-> input[4]]
    ELSE [threw |-> FALSE, val |-> Num(BigInt(input))]

\* serialise: bigint -> 0-padded 32-byte hexstring
serialise(input) ==
    IF IsNum(input) THEN <<"0", "x">> \o padStart(toString16(ToNat(input)))
    ELSE DigestString(input)

\* keccak-256 of one 32-byte word, as far as the tree looks at it: the
\* SMT_DEPTH-bit number the key-addressed tree walks.  Multiplication by an
\* odd number is injective modulo 2^SMT_DEPTH.
keccakWord(k) == Num((k * 3) % Pow2(SMT_DEPTH))

\* keccak(...bytes): 0 when every input is 0
\* keccak without the rule that hashes all-zero inputs to zero
keccakNoZeroRule(bytes) ==
    IF Len(bytes) = 1 THEN keccakWord(ToNat(bytes[1]))
    ELSE <<"k">> \o bytes

keccak(bytes) ==
    IF \A k \in 1..Len(bytes) : bytes[k] = ZERO THEN ZERO
    ELSE IF Len(bytes) = 1 THEN keccakWord(ToNat(bytes[1]))
    ELSE <<"k">> \o bytes

\* this.db.get(key)?.[j] || this._zeroElement
dbGet(d, key, j) ==
    IF key \in DOMAIN d THEN (IF d[key][j + 1] = ZERO THEN ZERO ELSE d[key][j + 1]) ELSE ZERO

\* this.db.set(key, node)
dbSet(d, key, node) == [x \in (DOMAIN d) \cup {key} |-> IF x = key THEN node ELSE d[x]]

\* this.db.delete(key)
dbDelete(d, key) == [x \in (DOMAIN d) \ {key} |-> d[x]]

EmptyDb == [x \in {} |-> <<>>]

\* ------------------------------------------- lib/SparseMerkleTree.ts (index)
\* the root->leaf loop of get, collecting the zero siblings too
RECURSIVE getWalkKeepZeros(_, _, _, _, _, _, _)
getWalkKeepZeros(d, dp, index, i, child, enables, siblings) ==
    IF i >= dp THEN [child |-> child, enables |-> enables, siblings |-> siblings]
    ELSE LET j == Bit(index, dp - i - 1)
             sibling == dbGet(d, child, 1 - j)
             next == dbGet(d, child, j)
         IN  getWalkKeepZeros(d, dp, index, i + 1, next,
                              IF sibling # ZERO THEN enables + Pow2(dp - i - 1) ELSE enables,
                              <<sibling>> \o siblings)

\* the root->leaf loop of get: MSB->LSB, collects the nonzero siblings
RECURSIVE getWalk(_, _, _, _, _, _, _)
getWalk(d, dp, index, i, child, enables, siblings) ==
    IF i >= dp THEN [child |-> child, enables |-> enables, siblings |-> siblings]
    ELSE LET j == Bit(index, dp - i - 1)
             sibling == dbGet(d, child, 1 - j)
             next == dbGet(d, child, j)
         IN  IF sibling # ZERO
             THEN getWalk(d, dp, index, i + 1, next,
                          enables + Pow2(dp - i - 1), <<sibling>> \o siblings)
             ELSE getWalk(d, dp, index, i + 1, next, enables, siblings)

\* siblings.map(this._serialiserFn)
RECURSIVE mapSerialise(_)
mapSerialise(siblings) ==
    IF siblings = <<>> THEN <<>>
    ELSE <<serialise(Head(siblings))>> \o mapSerialise(Tail(siblings))

\* the part of get after the walk: look the reached digest up in the store
getResult(d, index, w) ==
    LET child == w.child
        found == child \in DOMAIN d
    IN  IF found /\ Len(d[child]) < 3
        THEN [threw |-> TRUE, exists |-> FALSE, leaf |-> Null, value |-> Null,
              index |-> index, enables |-> 0, siblings |-> <<>>]
        ELSE [threw |-> FALSE,
              exists |-> found,
              leaf |-> serialise(child),
              value |-> IF found THEN serialise(d[child][2]) ELSE Null,
              index |-> index,
              enables |-> w.enables,
              siblings |-> mapSerialise(w.siblings)]

\* SparseMerkleTree.get(index)
get(rt, d, dp, index) == getResult(d, index, getWalk(d, dp, index, 0, rt, 0, <<>>))

\* siblings[s]: undefined past the end of the array
At(siblings, s) == IF s < Len(siblings) THEN siblings[s + 1] ELSE Undefined

\* the leaf->root loop of verifyProof: LSB->MSB, s counts the siblings used
RECURSIVE verifyFold(_, _, _, _, _, _, _)
verifyFold(dp, index, enables, siblings, i, acc, s) ==
    IF i >= dp THEN [threw |-> FALSE, root |-> acc]
    ELSE LET isRightChild == Bit(index, i) = 1
             enabled == Bit(enables, i) = 1
             sib == IF enabled THEN deserialise(At(siblings, s))
                    ELSE [threw |-> FALSE, val |-> ZERO]
             children == IF isRightChild THEN <<sib.val, acc>> ELSE <<acc, sib.val>>
         IN  IF sib.threw THEN [threw |-> TRUE, root |-> ZERO]
             ELSE verifyFold(dp, index, enables, siblings, i + 1, keccak(children),
                             IF enabled THEN s + 1 ELSE s)

\* SparseMerkleTree.verifyProof(leaf, index, enables, siblings)
verifyProof(rt, dp, leaf, index, enables, siblings) ==
    LET l == deserialise(leaf)
        f == verifyFold(dp, index, enables, siblings, 0, l.val, 0)
    IN  IF l.threw \/ f.threw THEN [threw |-> TRUE, ok |-> FALSE]
        ELSE [threw |-> FALSE, ok |-> (f.root = rt)]

\* the loop of exists: MSB->LSB, stops at the first zero digest
RECURSIVE existsWalk(_, _, _, _, _)
existsWalk(d, dp, index, i, leaf) ==
    IF i >= dp THEN leaf
    ELSE LET j == Bit(index, dp - i - 1)
             next == dbGet(d, leaf, j)
         IN  IF next = ZERO THEN next ELSE existsWalk(d, dp, index, i + 1, next)

\* SparseMerkleTree.exists(index)
exists(rt, d, dp, index) == existsWalk(d, dp, index, 0, rt) # ZERO

\* upsert step 1 that pushes the child on the path instead of its sibling
RECURSIVE deleteWalkPushChild(_, _, _, _, _, _)
deleteWalkPushChild(d, dp, index, i, nextParent, siblings) ==
    IF i >= dp THEN [db |-> d, siblings |-> siblings]
    ELSE LET currParent == nextParent
             j == Bit(index, dp - i - 1)
             next == dbGet(d, nextParent, j)
         IN  deleteWalkPushChild(dbDelete(d, currParent), dp, index, i + 1, next,
                                 Append(siblings, next))

\* upsert step 1: walk root->leaf, delete every parent entry on the path and
\* push the sibling of every level
RECURSIVE deleteWalk(_, _, _, _, _, _)
deleteWalk(d, dp, index, i, nextParent, siblings) ==
    IF i >= dp THEN [db |-> d, siblings |-> siblings]
    ELSE LET currParent == nextParent
             j == Bit(index, dp - i - 1)
             sibling == dbGet(d, nextParent, 1 - j)
             next == dbGet(d, nextParent, j)
         IN  deleteWalk(dbDelete(d, currParent), dp, index, i + 1, next,
                        Append(siblings, sibling))

\* upsert step 3: walk leaf->root, pop a sibling per level and store the
\* parent under its hash
RECURSIVE rebuildWalk(_, _, _, _, _, _)
rebuildWalk(d, dp, index, i, child, siblings) ==
    IF i >= dp THEN [db |-> d, root |-> child]
    ELSE LET isRightChild == Bit(index, i) = 1
             sibling == siblings[Len(siblings)]
             children == IF isRightChild THEN <<sibling, child>> ELSE <<child, sibling>>
             parent == keccak(children)
         IN  rebuildWalk(dbSet(d, parent, children), dp, index, i + 1, parent,
                         SubSeq(siblings, 1, Len(siblings) - 1))

\* result of a call that threw: the tree as the call left it
Threw(rt, d) == [threw |-> TRUE, root |-> rt, db |-> d, proof |-> Null, newLeaf |-> Null]

\* upsert that deletes the path before it looks at the new leaf's string
upsertDeleteFirst(rt, d, dp, index, newLeaf_) ==
    LET newLeaf == deserialise(newLeaf_)
        proof == get(rt, d, dp, index)
    IN  IF proof.threw THEN Threw(rt, d)
        ELSE LET del == deleteWalk(d, dp, proof.index, 0, rt, <<>>)
             IN  IF newLeaf.threw THEN Threw(rt, del.db)
                 ELSE LET withLeaf == dbSet(del.db, newLeaf.val, <<Num(index), newLeaf.val, Num(1)>>)
                          built == rebuildWalk(withLeaf, dp, proof.index, 0, newLeaf.val, del.siblings)
                      IN  [threw |-> FALSE, root |-> built.root, db |-> built.db,
                           proof |-> proof, newLeaf |-> serialise(newLeaf.val)]

\* SparseMerkleTree.upsert(index, newLeaf_)
upsert(rt, d, dp, index, newLeaf_) ==
    LET newLeaf == deserialise(newLeaf_)
        proof == get(rt, d, dp, index)
    IN  IF newLeaf.threw \/ proof.threw THEN Threw(rt, d)
        ELSE LET del == deleteWalk(d, dp, proof.index, 0, rt, <<>>)
                 withLeaf == dbSet(del.db, newLeaf.val, <<Num(index), newLeaf.val, Num(1)>>)
                 built == rebuildWalk(withLeaf, dp, proof.index, 0, newLeaf.val, del.siblings)
             IN  [threw |-> FALSE, root |-> built.root, db |-> built.db,
                  proof |-> proof, newLeaf |-> serialise(newLeaf.val)]

\* SparseMerkleTree.insert(index, leaf)
insert(rt, d, dp, index, leaf) ==
    IF exists(rt, d, dp, index) THEN Threw(rt, d) ELSE upsert(rt, d, dp, index, leaf)

\* SparseMerkleTree.update(index, newLeaf)
update(rt, d, dp, index, newLeaf) ==
    IF ~exists(rt, d, dp, index) THEN Threw(rt, d) ELSE upsert(rt, d, dp, index, newLeaf)

\* --------------------------------------------- lib/SparseMerkleTreeKV.ts (KV)
\* SparseMerkleTreeKV.get(key)
getKV(rt, d, key) ==
    LET key_ == deserialise(key)
        index == ToNat(keccak(<<key_.val>>))
    IN  IF key_.threw
        THEN [threw |-> TRUE, exists |-> FALSE, leaf |-> Null, value |-> Null,
              index |-> 0, enables |-> 0, siblings |-> <<>>]
        ELSE getResult(d, index, getWalk(d, SMT_DEPTH, index, 0, rt, 0, <<>>))

\* SparseMerkleTreeKV.verifyProof(leaf, index, enables, siblings)
verifyProofKV(rt, leaf, index, enables, siblings) ==
    LET l == deserialise(leaf)
        f == verifyFold(SMT_DEPTH, index, enables, siblings, 0, l.val, 0)
    IN  IF l.threw \/ f.threw THEN [threw |-> TRUE, ok |-> FALSE]
        ELSE [threw |-> FALSE, ok |-> (f.root = rt)]

\* SparseMerkleTreeKV.exists(key)
existsKV(rt, d, key_) ==
    existsWalk(d, SMT_DEPTH, ToNat(keccak(<<key_>>)), 0, rt) # ZERO

\* SparseMerkleTreeKV.upsert(key, value)
\* upsertKV whose leaf is the hash of key and value without the tag
upsertKVNoTag(rt, d, key, value) ==
    LET key_ == deserialise(key)
        value_ == deserialise(value)
        proof == getKV(rt, d, key)
    IN  IF key_.threw \/ value_.threw \/ proof.threw THEN Threw(rt, d)
        ELSE LET del == deleteWalk(d, SMT_DEPTH, proof.index, 0, rt, <<>>)
                 leaf == keccak(<<key_.val, value_.val>>)
                 withLeaf == dbSet(del.db, leaf, <<key_.val, value_.val, Num(1)>>)
                 built == rebuildWalk(withLeaf, SMT_DEPTH, proof.index, 0, leaf, del.siblings)
             IN  [threw |-> FALSE, root |-> built.root, db |-> built.db,
                  proof |-> proof, newLeaf |-> serialise(leaf)]

upsertKV(rt, d, key, value) ==
    LET key_ == deserialise(key)
        value_ == deserialise(value)
        proof == getKV(rt, d, key)
    IN  IF key_.threw \/ value_.threw \/ proof.threw THEN Threw(rt, d)
        ELSE LET del == deleteWalk(d, SMT_DEPTH, proof.index, 0, rt, <<>>)
                 leaf == keccak(<<key_.val, value_.val, Num(1)>>)
                 withLeaf == dbSet(del.db, leaf, <<key_.val, value_.val, Num(1)>>)
                 built == rebuildWalk(withLeaf, SMT_DEPTH, proof.index, 0, leaf, del.siblings)
             IN  [threw |-> FALSE, root |-> built.root, db |-> built.db,
                  proof |-> proof, newLeaf |-> serialise(leaf)]

\* SparseMerkleTreeKV.insert(key, value)
insertKV(rt, d, key, value) ==
    LET key_ == deserialise(key)
    IN  IF key_.threw THEN Threw(rt, d)
        ELSE IF existsKV(rt, d, key_.val) THEN Threw(rt, d)
        ELSE upsertKV(rt, d, key, value)

\* SparseMerkleTreeKV.update(key, value)
updateKV(rt, d, key, value) ==
    LET key_ == deserialise(key)
    IN  IF key_.threw THEN Threw(rt, d)
        ELSE IF ~existsKV(rt, d, key_.val) THEN Threw(rt, d)
        ELSE upsertKV(rt, d, key, value)

\* ------------------------------------------ contracts/SparseMerkleTree.sol
\* keccak256(abi.encode(uint256(0), uint256(0))), the constant of computeRoot
KECCAK_0_0 == <<"k", ZERO, ZERO>>

\* keccak256(0, 0x40) of the two words in scratch memory
keccak256(left, right) == <<"k", left, right>>

\* width of a uint256 / bytes32 word: 256 in the source, scaled with SMT_DEPTH
UintBits == SMT_DEPTH

\* hash(left, right): keccak, but 0 if both inputs are 0
hash(left, right) ==
    IF ~(left = ZERO /\ right = ZERO) THEN keccak256(left, right) ELSE ZERO

Ok(ret) == [revert |-> "", ret |-> ret]

Revert(err) == [revert |-> err, ret |-> ZERO]

\* the assembly loop without the test for keccak256(0, 0)
RECURSIVE computeRootLoopNoZero(_, _, _, _, _, _, _)
computeRootLoopNoZero(treeDepth, index, enables, siblings, i, leaf, sPtr) ==
    IF ~(i < treeDepth) THEN Ok(leaf)
    ELSE LET enabled == Bit(enables, i) = 1
             dir == Bit(index, i)
         IN  IF enabled /\ ~(sPtr < Len(siblings)) THEN Revert("Panic")
             ELSE LET sibling == IF enabled THEN siblings[sPtr + 1] ELSE ZERO
                      h == IF dir = 1 THEN keccak256(sibling, leaf)
                           ELSE keccak256(leaf, sibling)
                  IN  computeRootLoopNoZero(treeDepth, index, enables, siblings, i + 1,
                                            h, IF enabled THEN sPtr + 1 ELSE sPtr)

\* the assembly loop of computeRoot; the calldata pointer sPtr counts words
RECURSIVE computeRootLoop(_, _, _, _, _, _, _)
computeRootLoop(treeDepth, index, enables, siblings, i, leaf, sPtr) ==
    IF ~(i < treeDepth) THEN Ok(leaf)
    ELSE LET enabled == Bit(enables, i) = 1
             dir == Bit(index, i)
         IN  IF enabled /\ ~(sPtr < Len(siblings)) THEN Revert("Panic")
             ELSE LET sibling == IF enabled THEN siblings[sPtr + 1] ELSE ZERO
                      h == IF dir = 1 THEN keccak256(sibling, leaf)
                           ELSE keccak256(leaf, sibling)
                  IN  computeRootLoop(treeDepth, index, enables, siblings, i + 1,
                                      IF h = KECCAK_0_0 THEN ZERO ELSE h,
                                      IF enabled THEN sPtr + 1 ELSE sPtr)

\* computeRoot whose range check lets the index 2^treeDepth through
computeRootOffByOne(treeDepth, leaf, index, enables, siblings) ==
    IF treeDepth > UintBits THEN Revert("InvalidTreeDepth")
    ELSE IF treeDepth < UintBits /\ index > Pow2(treeDepth) THEN Revert("OutOfRange")
    ELSE computeRootLoop(treeDepth, index, enables, siblings, 0, leaf, 0)

\* SparseMerkleTree.computeRoot(treeDepth, leaf, index, enables, siblings)
computeRoot(treeDepth, leaf, index, enables, siblings) ==
    IF treeDepth > UintBits THEN Revert("InvalidTreeDepth")
    ELSE IF treeDepth < UintBits /\ index >= Pow2(treeDepth) THEN Revert("OutOfRange")
    ELSE computeRootLoop(treeDepth, index, enables, siblings, 0, leaf, 0)

\* the for loop of computeRoot_REF; siblings[s++] past the end is Panic(0x32)
RECURSIVE computeRootLoop_REF(_, _, _, _, _, _, _)
computeRootLoop_REF(treeDepth, index, enables, siblings, i, leaf, s) ==
    IF ~(i < treeDepth) THEN Ok(leaf)
    ELSE LET enabled == Bit(enables, i) = 1
         IN  IF enabled /\ ~(s < Len(siblings)) THEN Revert("Panic")
             ELSE LET sibling == IF enabled THEN siblings[s + 1] ELSE ZERO
                      next == IF Bit(index, i) = 1 THEN hash(sibling, leaf)
                              ELSE hash(leaf, sibling)
                  IN  computeRootLoop_REF(treeDepth, index, enables, siblings, i + 1,
                                          next, IF enabled THEN s + 1 ELSE s)

\* computeRoot_REF without the depth check
computeRoot_REFNoDepthCheck(treeDepth, leaf, index, enables, siblings) ==
    IF treeDepth < UintBits /\ index >= Pow2(treeDepth) THEN Revert("OutOfRange")
    ELSE computeRootLoop_REF(treeDepth, index, enables, siblings, 0, leaf, 0)

\* SparseMerkleTree.computeRoot_REF(treeDepth, leaf, index, enables, siblings)
computeRoot_REF(treeDepth, leaf, index, enables, siblings) ==
    IF treeDepth > UintBits THEN Revert("InvalidTreeDepth")
    ELSE IF treeDepth < UintBits /\ index >= Pow2(treeDepth) THEN Revert("OutOfRange")
    ELSE computeRootLoop_REF(treeDepth, index, enables, siblings, 0, leaf, 0)

\* ------------------------------------------ contracts/test/SMTConsumer.sol
\* a 32-byte hex string as the bytes32 word the ABI encoder passes
ToBytes32(s) == deserialise(s).val

RECURSIVE ToBytes32Array(_)
ToBytes32Array(path) ==
    IF path = <<>> THEN <<>>
    ELSE <<ToBytes32(Head(path))>> \o ToBytes32Array(Tail(path))

\* type(uint8).max: the width of a word less one, 255 in the source
MaxUint8 == UintBits - 1

\* no SMTConsumer is deployed
NoContract == -1

\* constructor(uint8 treeDepth_): the deployment fails when the argument
\* does not fit the uint8 parameter, else the contract holds treeDepth_
deploy(treeDepth_) ==
    IF treeDepth_ > MaxUint8 THEN [revert |-> "OutOfBounds", treeDepth |-> NoContract]
    ELSE [revert |-> "", treeDepth |-> treeDepth_]

\* SMTConsumer.computeRoot(leaf, index, enables, path)
consumerComputeRoot(treeDepth, leaf, index, enables, path) ==
    computeRoot(treeDepth, leaf, index, enables, path)

\* updateRoot without the comparison of the old root
updateRootNoGuard(rt, treeDepth, newLeaf, oldLeaf, index, enables, path) ==
    LET new == consumerComputeRoot(treeDepth, newLeaf, index, enables, path)
    IN  IF new.revert # "" THEN [revert |-> new.revert, ret |-> ZERO, root |-> rt]
        ELSE [revert |-> "", ret |-> new.ret, root |-> new.ret]

\* SMTConsumer.updateRoot(newLeaf, oldLeaf, index, enables, path): the call's
\* outcome and the root it leaves in storage
updateRoot(rt, treeDepth, newLeaf, oldLeaf, index, enables, path) ==
    LET old == consumerComputeRoot(treeDepth, oldLeaf, index, enables, path)
        new == consumerComputeRoot(treeDepth, newLeaf, index, enables, path)
    IN  IF old.revert # "" THEN [revert |-> old.revert, ret |-> ZERO, root |-> rt]
        ELSE IF rt # old.ret THEN [revert |-> "InvalidProof", ret |-> ZERO, root |-> rt]
        ELSE IF new.revert # "" THEN [revert |-> new.revert, ret |-> ZERO, root |-> rt]
        ELSE [revert |-> "", ret |-> new.ret, root |-> new.ret]

\* -------------------------------------- contracts/test/AddressKeyedSMT.sol
\* width of an address (160 bits in the EVM), scaled like UintBits
AddressBits == UintBits

\* keccak256(bytes(newValue)): the digest of a string
keccak256String(newValue) == <<"s", newValue>>

\* AddressKeyedSMT.computeRoot(leaf, index, enables, path)
addressKeyedComputeRoot(treeDepth, leaf, index, enables, path) ==
    computeRoot(treeDepth, leaf, index, enables, path)

\* AddressKeyedSMT.update(account, newValue, oldLeaf, enables, siblings): the
\* call's outcome and the root it leaves in storage
addressKeyedUpdate(rt, treeDepth, account, newValue, oldLeaf, enables, siblings) ==
    LET index == account % Pow2(AddressBits)
        old == addressKeyedComputeRoot(treeDepth, oldLeaf, index, enables, siblings)
        newLeaf == keccak256String(newValue)
        new == addressKeyedComputeRoot(treeDepth, newLeaf, index, enables, siblings)
    IN  IF old.revert # "" THEN [revert |-> old.revert, ret |-> ZERO, root |-> rt]
        ELSE IF rt # old.ret THEN [revert |-> "InvalidProof", ret |-> ZERO, root |-> rt]
        ELSE IF new.revert # "" THEN [revert |-> new.revert, ret |-> ZERO, root |-> rt]
        ELSE [revert |-> "", ret |-> new.ret, root |-> new.ret]

\* ---------------------------------------------------- lib/toProofArgs.ts
\* BigInt(proofPath.pathElements[i]) > 0n
isPositive(element) ==
    IF IsDigestString(element) THEN element[4] # ZERO ELSE BigInt(element) > 0

\* the loop of toProofArgs that puts each element in front of the path
RECURSIVE toProofArgsLoopUnshift(_, _, _, _)
toProofArgsLoopUnshift(pathElements, i, enables, path) ==
    IF ~(i < Len(pathElements)) THEN [enables |-> enables, path |-> path]
    ELSE IF isPositive(pathElements[i + 1])
         THEN toProofArgsLoopUnshift(pathElements, i + 1, enables + Pow2(i),
                                     <<pathElements[i + 1]>> \o path)
         ELSE toProofArgsLoopUnshift(pathElements, i + 1, enables, path)

\* the loop of toProofArgs: path.push(...), enables |= 1n << BigInt(i)
RECURSIVE toProofArgsLoop(_, _, _, _)
toProofArgsLoop(pathElements, i, enables, path) ==
    IF ~(i < Len(pathElements)) THEN [enables |-> enables, path |-> path]
    ELSE IF isPositive(pathElements[i + 1])
         THEN toProofArgsLoop(pathElements, i + 1, enables + Pow2(i),
                              Append(path, pathElements[i + 1]))
         ELSE toProofArgsLoop(pathElements, i + 1, enables, path)

\* toProofArgs(proofPath)
toProofArgs(proofPath) == toProofArgsLoop(proofPath.pathElements, 0, 0, <<>>)

\* hashFunction of the fixed-capacity tree: ZeroHash for two zero inputs,
\* else keccak256 of the two words
hashFunction(left, right) ==
    IF ~isPositive(left) /\ ~isPositive(right) THEN serialise(ZERO)
    ELSE serialise(keccak256(ToBytes32(left), ToBytes32(right)))

\* the root the fixed-capacity tree has when the element at index is leaf
\* and the siblings on its path are pathElements[i..]
RECURSIVE pathRoot(_, _, _, _)
pathRoot(leaf, index, pathElements, i) ==
    IF ~(i < Len(pathElements)) THEN leaf
    ELSE pathRoot(IF Bit(index, i) = 1 THEN hashFunction(pathElements[i + 1], leaf)
                  ELSE hashFunction(leaf, pathElements[i + 1]),
                  index, pathElements, i + 1)

\* ------------------------------------------------------------------ state
VARIABLES
    mode,       \* which class the behaviour constructs: "index" or "kv"
    depth,      \* _depth of the tree, also the consumer's treeDepth
    root,       \* _root of the offchain tree
    db,         \* db of the offchain tree: digest -> node
    scDepth,    \* treeDepth of the deployed SMTConsumer, or NoContract
    scRoot,     \* root in the storage of SMTConsumer
    akRoot,     \* root in the storage of AddressKeyedSMT
    pending,    \* UpdateProof returned by the last mutation, not yet submitted
    last,       \* the last call: its arguments and what it returned
    written,    \* history: slot -> the number last written to it, or Null
    nOps,       \* history: number of successful insert/update calls
    fresh       \* history: every successful call was an insert at a new slot

vars == <<mode, depth, root, db, scDepth, scRoot, akRoot, pending, written, nOps, fresh, last>>

\* "0x" followed by the shortest hex form of n
Hex(n) == <<"0", "x">> \o toString16(n)

\* a number with a leading zero, and a string that is not hex
OddStrings == {<<"0", "x", "0", "1">>, <<"0", "x">>}

\* strings a caller passes as value
Strings == {Hex(n) : n \in 0..MaxVal} \cup OddStrings

\* strings a caller passes as key; keccakWord is injective on the keys
Keys == {k \in 0..MaxKey : k < Pow2(SMT_DEPTH)}

KeyStrings == {Hex(n) : n \in Keys} \cup OddStrings

\* indices a caller passes: every leaf of the tree
Indices == 0..(Pow2(depth) - 1)

Slots == IF mode = "index" THEN Indices ELSE Keys

NoCall == [op |-> "none", key |-> Null, value |-> Null, threw |-> FALSE,
           proof |-> Null, newLeaf |-> Null, ok |-> FALSE, revert |-> "", ret |-> ZERO,
           ref |-> Null]

\* the state after construction of a tree of class m
InitTree(m) ==
    /\ mode = m
    /\ depth \in IF mode = "index" THEN 0..MaxDepth ELSE {SMT_DEPTH}
    /\ root = ZERO
    /\ db = EmptyDb
    /\ scRoot = ZERO
    /\ akRoot = ZERO
    /\ pending = Null
    /\ last = NoCall
    /\ written = [s \in Slots |-> Null]
    /\ nOps = 0
    /\ fresh = TRUE

\* a tree of class m and an SMTConsumer that holds the depth of the tree
InitMode(m) == InitTree(m) /\ scDepth = depth

\* a tree of class m before any SMTConsumer is deployed
InitUndeployed(m) == InitTree(m) /\ scDepth = NoContract

Init == InitMode("index") \/ InitMode("kv")

\* a mutation of the offchain tree with outcome r, as the client sees it
Mutate(op, key, value, r, slot) ==
    /\ root' = r.root
    /\ db' = r.db
    /\ last' = [NoCall EXCEPT !.op = op, !.key = key, !.value = value,
                              !.threw = r.threw, !.proof = r.proof, !.newLeaf = r.newLeaf]
    /\ pending' = IF r.threw THEN Null ELSE [r.proof EXCEPT !.value = r.newLeaf]
    /\ nOps' = IF r.threw THEN nOps ELSE nOps + 1
    /\ fresh' = (fresh /\ (r.threw \/ (op = "insert" /\ written[slot] = Null)))
    /\ written' = IF r.threw THEN written
                  ELSE [written EXCEPT ![slot] = deserialise(value).val]
    /\ UNCHANGED <<mode, depth, scDepth, scRoot, akRoot>>

Insert(index, leaf) ==
    /\ mode = "index"
    /\ pending = Null
    /\ nOps < MaxOps
    /\ Mutate("insert", index, leaf, insert(root, db, depth, index, leaf),
              index % Pow2(depth))

Update(index, newLeaf) ==
    /\ mode = "index"
    /\ pending = Null
    /\ nOps < MaxOps
    /\ Mutate("update", index, newLeaf, update(root, db, depth, index, newLeaf),
              index % Pow2(depth))

InsertKV(key, value) ==
    /\ mode = "kv"
    /\ pending = Null
    /\ nOps < MaxOps
    /\ Mutate("insert", key, value, insertKV(root, db, key, value),
              ToNat(deserialise(key).val))

UpdateKV(key, value) ==
    /\ mode = "kv"
    /\ pending = Null
    /\ nOps < MaxOps
    /\ Mutate("update", key, value, updateKV(root, db, key, value),
              ToNat(deserialise(key).val))

\* a read that empties the store
ReadClearsStore(call) ==
    /\ last' = call
    /\ db' = EmptyDb
    /\ UNCHANGED <<mode, depth, root, scDepth, scRoot, akRoot, pending, written, nOps, fresh>>

\* a read: only the record of the last call changes
Read(call) ==
    /\ last' = call
    /\ UNCHANGED <<mode, depth, root, db, scDepth, scRoot, akRoot, pending, written, nOps, fresh>>

Get(index) ==
    /\ mode = "index"
    /\ LET p == get(root, db, depth, index)
       IN  Read([NoCall EXCEPT !.op = "get", !.key = index, !.threw = p.threw, !.proof = p])

GetKV(key) ==
    /\ mode = "kv"
    /\ LET p == getKV(root, db, key)
       IN  Read([NoCall EXCEPT !.op = "get", !.key = key, !.threw = p.threw, !.proof = p])

Exists(index) ==
    /\ mode = "index"
    /\ Read([NoCall EXCEPT !.op = "exists", !.key = index,
                           !.ok = exists(root, db, depth, index)])

ExistsKV(key) ==
    /\ mode = "kv"
    /\ Read([NoCall EXCEPT !.op = "exists", !.key = key,
                           !.ok = existsKV(root, db, Num(key))])

\* verifyProof called with the proof the last get returned
VerifyProof ==
    /\ mode = "index"
    /\ last.op = "get"
    /\ ~last.threw
    /\ LET p == last.proof
           v == verifyProof(root, depth, p.leaf, p.index, p.enables, p.siblings)
       IN  Read([last EXCEPT !.op = "verifyProof", !.threw = v.threw, !.ok = v.ok])

VerifyProofKV ==
    /\ mode = "kv"
    /\ last.op = "get"
    /\ ~last.threw
    /\ LET p == last.proof
           v == verifyProofKV(root, p.leaf, p.index, p.enables, p.siblings)
       IN  Read([last EXCEPT !.op = "verifyProof", !.threw = v.threw, !.ok = v.ok])

\* verifyProof called with arguments of the caller's choice
VerifyProofArgs(leaf, index, enables, siblings) ==
    /\ mode = "index"
    /\ LET v == verifyProof(root, depth, leaf, index, enables, siblings)
       IN  Read([NoCall EXCEPT !.op = "verifyProof", !.key = index,
                               !.proof = [leaf |-> leaf, index |-> index,
                                          enables |-> enables, siblings |-> siblings],
                               !.threw = v.threw, !.ok = v.ok])

\* a contract calls the library's computeRoot and computeRoot_REF with the
\* same arguments; ref is the outcome of computeRoot_REF
LibraryComputeRoot(treeDepth, leaf, index, enables, siblings) ==
    LET c == computeRoot(treeDepth, leaf, index, enables, siblings)
    IN  Read([NoCall EXCEPT !.op = "libraryComputeRoot", !.key = index,
                            !.proof = [treeDepth |-> treeDepth, leaf |-> leaf,
                                       index |-> index, enables |-> enables,
                                       siblings |-> siblings],
                            !.revert = c.revert, !.ret = c.ret,
                            !.ref = computeRoot_REF(treeDepth, leaf, index, enables, siblings)])

\* SMTConsumer.computeRoot called with the proof the last get returned
ComputeRoot ==
    /\ last.op \in {"get", "verifyProof"}
    /\ last.proof # Null
    /\ ~last.proof.threw
    /\ scDepth # NoContract
    /\ LET p == last.proof
           c == consumerComputeRoot(scDepth, ToBytes32(p.leaf), p.index, p.enables,
                                    ToBytes32Array(p.siblings))
       IN  Read([last EXCEPT !.op = "computeRoot", !.revert = c.revert, !.ret = c.ret])

\* the client submits the UpdateProof of its last mutation to the contract
UpdateRoot ==
    /\ pending # Null
    /\ scDepth # NoContract
    /\ LET p == pending
           u == updateRoot(scRoot, scDepth, ToBytes32(p.value), ToBytes32(p.leaf), p.index,
                           p.enables, ToBytes32Array(p.siblings))
       IN  /\ scRoot' = u.root
           /\ last' = [NoCall EXCEPT !.op = "updateRoot", !.key = p.index, !.proof = p,
                                     !.revert = u.revert, !.ret = u.ret]
    /\ pending' = Null
    /\ UNCHANGED <<mode, depth, root, db, scDepth, akRoot, written, nOps, fresh>>

\* new SMTConsumer__factory(deployer).deploy(treeDepth_), before the tree is
\* written to; a failed deployment leaves the client with what it had
Deploy(treeDepth_) ==
    /\ nOps = 0
    /\ last.op \in {"none", "deploy"}
    /\ LET c == deploy(treeDepth_)
       IN  /\ scDepth' = IF c.revert = "" THEN c.treeDepth ELSE scDepth
           /\ scRoot' = IF c.revert = "" THEN ZERO ELSE scRoot
           /\ last' = [NoCall EXCEPT !.op = "deploy", !.key = treeDepth_,
                                     !.revert = c.revert]
    /\ UNCHANGED <<mode, depth, root, db, akRoot, pending, written, nOps, fresh>>

\* SMTConsumer.updateRoot called with arguments of the caller's choice
UpdateRootArgs(newLeaf, oldLeaf, index, enables, path) ==
    /\ nOps < MaxCalls
    /\ scDepth # NoContract
    /\ LET u == updateRoot(scRoot, scDepth, newLeaf, oldLeaf, index, enables, path)
       IN  /\ scRoot' = u.root
           /\ nOps' = IF u.revert = "" THEN nOps + 1 ELSE nOps
           /\ last' = [NoCall EXCEPT !.op = "updateRoot", !.key = index,
                                     !.proof = [newLeaf |-> newLeaf, oldLeaf |-> oldLeaf,
                                                index |-> index, enables |-> enables,
                                                path |-> path],
                                     !.revert = u.revert, !.ret = u.ret]
    /\ UNCHANGED <<mode, depth, root, db, scDepth, akRoot, pending, written, fresh>>

\* AddressKeyedSMT.update called with arguments of the caller's choice
AddressKeyedUpdate(account, newValue, oldLeaf, enables, siblings) ==
    /\ nOps < MaxCalls
    /\ LET u == addressKeyedUpdate(akRoot, depth, account, newValue, oldLeaf, enables,
                                   siblings)
       IN  /\ akRoot' = u.root
           /\ nOps' = IF u.revert = "" THEN nOps + 1 ELSE nOps
           /\ last' = [NoCall EXCEPT !.op = "AddressKeyedSMT.update", !.key = account,
                                     !.value = newValue,
                                     !.proof = [oldLeaf |-> oldLeaf, enables |-> enables,
                                                siblings |-> siblings],
                                     !.revert = u.revert, !.ret = u.ret]
    /\ UNCHANGED <<mode, depth, root, db, scDepth, scRoot, pending, written, fresh>>

\* calls on a SparseMerkleTree
CallIndex ==
    \/ \E index \in Indices, leaf \in Strings : Insert(index, leaf)
    \/ \E index \in Indices, newLeaf \in Strings : Update(index, newLeaf)
    \/ \E index \in Indices : Get(index)
    \/ \E index \in Indices : Exists(index)
    \/ VerifyProof

\* strings of the numbers 1..MaxVal + 1: two values when MaxVal is 1
NonZeroStrings == {Hex(n) : n \in 1..(MaxVal + 1)}

\* calls on a SparseMerkleTree by a caller that never writes the number 0
CallIndexNonZero ==
    \/ \E index \in Indices, leaf \in NonZeroStrings : Insert(index, leaf)
    \/ \E index \in Indices, newLeaf \in NonZeroStrings : Update(index, newLeaf)
    \/ \E index \in Indices : Get(index)
    \/ VerifyProof

\* indices of one bit more than the tree has levels
WideIndices == 0..(2 * Pow2(depth) - 1)

\* calls on a SparseMerkleTree by a caller that passes any index and always
\* writes the number 1
CallIndexWide ==
    \/ \E index \in WideIndices : Insert(index, Hex(1))
    \/ \E index \in WideIndices : Update(index, Hex(1))
    \/ \E index \in WideIndices : Get(index)
    \/ VerifyProof

\* uint16 treeDepth, scaled: up to one more than the word has bits
TreeDepths == 0..(UintBits + 1)

\* uint256 index and enables, scaled
Words == 0..(Pow2(UintBits) - 1)

\* bytes32 leaf
Bytes32s == {ZERO, Num(1), KECCAK_0_0}

\* bytes32[] siblings: up to one more than a proof can use
SiblingLists == UNION {[1..n -> {ZERO, Num(1)}] : n \in 0..(UintBits + 1)}

\* one direct call of a verifier with arguments of the caller's choice
CallVerifier ==
    /\ last.op = "none"
    /\ \/ \E treeDepth \in TreeDepths, leaf \in Bytes32s, index \in Words,
             enables \in Words, siblings \in SiblingLists :
               LibraryComputeRoot(treeDepth, leaf, index, enables, siblings)
       \/ \E leaf \in Bytes32s \ {KECCAK_0_0}, index \in Words, enables \in Words,
             siblings \in SiblingLists :
               VerifyProofArgs(serialise(leaf), index, enables, mapSerialise(siblings))

\* leaves, values and proof paths a caller of the contracts passes
GuardLeaves == {ZERO, Num(1)}

GuardValues == {<<"a">>, <<"b">>}

GuardPaths == UNION {[1..n -> {Num(1)}] : n \in 0..depth}

\* direct calls of the contracts' update functions; a behaviour ends at the
\* first call that reverts, which changes nothing
CallGuard ==
    /\ last.revert = ""
    /\ \/ \E newLeaf \in GuardLeaves, oldLeaf \in GuardLeaves, index \in Words,
             enables \in Words, path \in GuardPaths :
               UpdateRootArgs(newLeaf, oldLeaf, index, enables, path)
       \/ \E account \in Words, newValue \in GuardValues, oldLeaf \in GuardLeaves,
             enables \in Words, siblings \in GuardPaths :
               AddressKeyedUpdate(account, newValue, oldLeaf, enables, siblings)

\* the client takes merkleTree.path(index) of a fixed-capacity tree of the
\* consumer's depth through toProofArgs and calls computeRoot with the result
ToProofArgs(leaf, index, pathElements) ==
    LET a == toProofArgs([pathElements |-> pathElements])
        c == consumerComputeRoot(scDepth, ToBytes32(leaf), index, a.enables,
                                 ToBytes32Array(a.path))
    IN  Read([NoCall EXCEPT !.op = "toProofArgs", !.key = index,
                            !.proof = [leaf |-> leaf, index |-> index,
                                       pathElements |-> pathElements,
                                       enables |-> a.enables, path |-> a.path],
                            !.revert = c.revert, !.ret = c.ret])

\* elements of a proof path: the zero element, a leaf and a subtree digest
PathElements == {serialise(ZERO), serialise(Num(1)), serialise(KECCAK_0_0)}

\* one use of the adaptor on a path of the tree's depth
CallAdaptor ==
    /\ last.op = "none"
    /\ \E leaf \in {serialise(x) : x \in Bytes32s}, index \in Indices,
          pathElements \in [1..depth -> PathElements] :
            ToProofArgs(leaf, index, pathElements)

\* calls on a SparseMerkleTreeKV
CallKV ==
    \/ \E key \in KeyStrings, value \in Strings : InsertKV(key, value)
    \/ \E key \in KeyStrings, value \in Strings : UpdateKV(key, value)
    \/ \E key \in KeyStrings : GetKV(key)
    \/ \E key \in Keys : ExistsKV(key)
    \/ VerifyProofKV

\* calls on the SMTConsumer contract
CallConsumer == ComputeRoot \/ UpdateRoot

Next == CallIndex \/ CallKV \/ CallConsumer

NextIndex == CallIndex \/ CallConsumer

NextKV == CallKV \/ CallConsumer

NextNonZero == CallIndexNonZero \/ CallConsumer

\* either class
Spec == Init /\ [][Next]_vars

\* a SparseMerkleTree and its consumer
SpecIndex == InitMode("index") /\ [][NextIndex]_vars

\* a SparseMerkleTreeKV and its consumer
SpecKV == InitMode("kv") /\ [][NextKV]_vars

\* a SparseMerkleTree whose caller writes nonzero numbers only
SpecNonZero == InitMode("index") /\ [][NextNonZero]_vars

\* a SparseMerkleTree whose caller passes indices beyond the last leaf
SpecWide == InitMode("index") /\ [][CallIndexWide \/ CallConsumer]_vars

\* the verifiers called directly on a freshly constructed SparseMerkleTree
SpecVerifier == InitMode("index") /\ [][CallVerifier]_vars

\* depths the consumer is deployed with: that of the tree, and one more than
\* the width of a word (257 in the tests)
DeployDepths == {depth, UintBits + 1}

\* the client deploys the consumer itself, then works as in Spec
SpecDeploy ==
    /\ InitUndeployed("index") \/ InitUndeployed("kv")
    /\ [][(\E treeDepth_ \in DeployDepths : Deploy(treeDepth_)) \/ Next]_vars

\* the adaptor used on proof paths of a fixed-capacity tree
SpecAdaptor == InitMode("index") /\ [][CallAdaptor]_vars

\* the contracts' update functions called directly
SpecGuard == InitMode("index") /\ [][CallGuard]_vars

\* ----------------------------------------------------------------- claims
\* strings that deserialise
ValidStrings == {s \in Strings \cup NonZeroStrings : ~deserialise(s).threw}

ValidKeyStrings == {s \in KeyStrings : ~deserialise(s).threw}

\* slots a successful insert wrote to
Held == {i \in Slots : written[i] # Null}

\* root of the from-scratch Merkle tree over the leaves [pos * 2^h, (pos + 1) * 2^h)
\* whose leaf at a written index is the value written and whose other leaves are 0
RECURSIVE ReferenceRoot(_, _)
ReferenceRoot(h, pos) ==
    IF h = 0 THEN (IF written[pos] = Null THEN ZERO ELSE written[pos])
    ELSE keccak(<<ReferenceRoot(h - 1, 2 * pos), ReferenceRoot(h - 1, 2 * pos + 1)>>)

\* C1: in a SparseMerkleTree, every index that holds a value has a proof from
\* get with exists = true that verifyProof accepts against the current root
C1_RoundTrip ==
    mode = "index" =>
        \A i \in Held :
            LET p == get(root, db, depth, i)
            IN  /\ ~p.threw
                /\ p.exists
                /\ verifyProof(root, depth, p.leaf, p.index, p.enables, p.siblings).ok

\* C2: in a SparseMerkleTreeKV, every inserted key k has a proof from get with
\* exists = true, index = hash(k), leaf = hash(k, current value, 1), and
\* verifyProof accepts it against the current root
C2_RoundTripKV ==
    mode = "kv" =>
        \A key \in ValidKeyStrings :
            LET k == deserialise(key).val
                p == getKV(root, db, key)
            IN  written[ToNat(k)] # Null =>
                    /\ ~p.threw
                    /\ p.exists
                    /\ p.index = ToNat(keccak(<<k>>))
                    /\ p.leaf = serialise(keccak(<<k, written[ToNat(k)], Num(1)>>))
                    /\ verifyProofKV(root, p.leaf, p.index, p.enables, p.siblings).ok

\* C2 witness: two keys hold values and the last call updated one of them
C2_Witness ==
    /\ mode = "kv"
    /\ Cardinality(Held) >= 2
    /\ last.op = "update"
    /\ ~last.threw

\* C3: when every UpdateProof is submitted to updateRoot, no submission reverts
\* with InvalidProof and after it the contract's root is the offchain root
C3_Synchronised ==
    /\ last.op = "updateRoot" => last.revert # "InvalidProof"
    /\ pending = Null => scRoot = root

\* C4: after inserts at pairwise distinct indices only, the root is the root
\* of the from-scratch reference tree over the inserted values
C4_SequentialConsistency ==
    (mode = "index" /\ fresh) => root = ReferenceRoot(depth, 0)

\* C5: get(slot).value is the serialised value last written to the slot
C5_ReadYourWrites ==
    /\ mode = "index" =>
           \A i \in Held :
               LET p == get(root, db, depth, i)
               IN  ~p.threw /\ p.value = serialise(written[i])
    /\ mode = "kv" =>
           \A key \in ValidKeyStrings :
               LET p == getKV(root, db, key)
                   k == ToNat(deserialise(key).val)
               IN  written[k] # Null => (~p.threw /\ p.value = serialise(written[k]))

\* C6: for every index never inserted, get returns exists = false, value = null
\* and the zero leaf, and verifyProof(0, j, enables, siblings) is true
C6_NonMembership ==
    mode = "index" =>
        \A j \in Slots \ Held :
            LET p == get(root, db, depth, j)
            IN  /\ ~p.threw
                /\ ~p.exists
                /\ p.value = Null
                /\ p.leaf = serialise(ZERO)
                /\ verifyProof(root, depth, serialise(ZERO), j, p.enables, p.siblings).ok

\* the fold of a proof through SMTConsumer.computeRoot
ConsumerFold(p) ==
    consumerComputeRoot(depth, ToBytes32(p.leaf), p.index, p.enables, ToBytes32Array(p.siblings))

\* what get returns for an empty slot of an empty tree
IsEmptyProof(p) ==
    /\ ~p.threw
    /\ ~p.exists
    /\ p.leaf = serialise(ZERO)
    /\ p.enables = 0
    /\ p.siblings = <<>>

C8_InsertThrowsIffHeld ==
    /\ mode = "index" =>
           \A i \in Indices, s \in ValidStrings :
               insert(root, db, depth, i, s).threw <=> i \in Held
    /\ mode = "kv" =>
           \A key \in ValidKeyStrings, s \in ValidStrings :
               insertKV(root, db, key, s).threw <=> ToNat(deserialise(key).val) \in Held

\* C9: update throws exactly when the slot holds no leaf: it is rejected at
\* every slot never inserted, accepted at every slot an insert succeeded at
C9_UpdateThrowsIffEmpty ==
    /\ mode = "index" =>
           \A i \in Indices, s \in ValidStrings :
               update(root, db, depth, i, s).threw <=> i \notin Held
    /\ mode = "kv" =>
           \A key \in ValidKeyStrings, s \in ValidStrings :
               updateKV(root, db, key, s).threw <=> ToNat(deserialise(key).val) \notin Held

\* C10: an insert or update that throws leaves the root and the node store as
\* they were, and the root changes only in an insert or update that completes
C10_NoPartialWrites ==
    [][/\ (last'.op \in {"insert", "update"} /\ last'.threw) => (root' = root /\ db' = db)
       /\ root' # root => (last'.op \in {"insert", "update"} /\ ~last'.threw)]_vars

\* C10 witness: on a tree that holds a leaf, a call threw on a string that
\* is not hex
C10_Witness ==
    /\ nOps > 0
    /\ last.op \in {"insert", "update"}
    /\ last.threw
    /\ last.value = <<"0", "x">>

\* C11: in a SparseMerkleTree, insert, update, get and verifyProof called with
\* an index >= 2^depth throw and leave the root and the node store untouched
C11_CapacityEnforced ==
    [][(/\ mode = "index"
        /\ last'.op \in {"insert", "update", "get", "verifyProof"}
        /\ last'.key >= Pow2(depth))
       => (last'.threw /\ root' = root /\ db' = db)]_vars

\* the last call was a direct call of computeRoot and computeRoot_REF
IsLibraryCall == last.op = "libraryComputeRoot"

\* C12: computeRoot and computeRoot_REF revert with OutOfRange in every call
\* with treeDepth below the full width and index >= 2^treeDepth, and in no
\* call with index < 2^treeDepth or with treeDepth the full width
C12_RangeCheck ==
    IsLibraryCall =>
        LET a == last.proof
        IN  /\ (a.treeDepth < UintBits /\ a.index >= Pow2(a.treeDepth))
                => (last.revert = "OutOfRange" /\ last.ref.revert = "OutOfRange")
            /\ (a.treeDepth = UintBits \/ a.index < Pow2(a.treeDepth))
                => (last.revert # "OutOfRange" /\ last.ref.revert # "OutOfRange")

\* C12 witness: a call with a sibling list and the index 2^treeDepth reverted
\* with OutOfRange
C12_Witness ==
    /\ IsLibraryCall
    /\ last.proof.treeDepth < UintBits
    /\ last.proof.index = Pow2(last.proof.treeDepth)
    /\ last.proof.siblings # <<>>
    /\ last.revert = "OutOfRange"
    /\ last.ref.revert = "OutOfRange"

\* C13: computeRoot and computeRoot_REF revert with InvalidTreeDepth in every
\* call with treeDepth above the full width, whatever the other arguments,
\* and in no call with treeDepth at most the full width
C13_DepthCheck ==
    IsLibraryCall =>
        LET a == last.proof
        IN  /\ a.treeDepth > UintBits
                => (last.revert = "InvalidTreeDepth" /\ last.ref.revert = "InvalidTreeDepth")
            /\ a.treeDepth <= UintBits
                => (last.revert # "InvalidTreeDepth" /\ last.ref.revert # "InvalidTreeDepth")

\* C13 witness: a call with treeDepth one above the full width, the largest
\* index and a sibling list reverted with InvalidTreeDepth
C13_Witness ==
    /\ IsLibraryCall
    /\ last.proof.treeDepth = UintBits + 1
    /\ last.proof.index = Pow2(UintBits) - 1
    /\ last.proof.siblings # <<>>
    /\ last.revert = "InvalidTreeDepth"

\* number of bits set in n
RECURSIVE PopCount(_)
PopCount(n) == IF n = 0 THEN 0 ELSE (n % 2) + PopCount(n \div 2)

\* C14: verifyProof throws, and computeRoot and computeRoot_REF revert,
\* whenever the number of siblings supplied is not popcount(enables), be it
\* smaller or larger
C14_MalformedProofRejected ==
    /\ IsLibraryCall =>
           (Len(last.proof.siblings) # PopCount(last.proof.enables)
                => (last.revert # "" /\ last.ref.revert # ""))
    /\ (last.op = "verifyProof" /\ last.proof # Null) =>
           (Len(last.proof.siblings) # PopCount(last.proof.enables) => last.threw)

\* C15: for the same arguments, computeRoot_REF and computeRoot either both
\* revert or both return the same root
C15_RefEquivalence ==
    IsLibraryCall =>
        /\ (last.revert # "") <=> (last.ref.revert # "")
        /\ last.revert = "" => last.ret = last.ref.ret

\* C15 witness: both folds returned a root that is not zero, for a zero leaf
\* whose first level hashes two zeros and whose second level uses a sibling
C15_Witness ==
    /\ IsLibraryCall
    /\ last.proof.treeDepth = UintBits
    /\ last.proof.leaf = ZERO
    /\ last.proof.enables = 2
    /\ last.proof.siblings = <<Num(1)>>
    /\ last.revert = ""
    /\ last.ret # ZERO
    /\ last.ret = last.ref.ret

\* |siblings| = popcount(enables) <= D
ProofShape(p) ==
    /\ Len(p.siblings) = PopCount(p.enables)
    /\ Len(p.siblings) <= depth

\* C16: every proof that get, insert or update returns, for any index or key,
\* has as many siblings as enables has bits set, and at most depth of them
C16_ProofShape ==
    /\ (last.op \in {"get", "insert", "update"} /\ ~last.threw) => ProofShape(last.proof)
    /\ mode = "index" =>
           \A i \in WideIndices :
               LET p == get(root, db, depth, i) IN ~p.threw => ProofShape(p)
    /\ mode = "kv" =>
           \A key \in ValidKeyStrings :
               LET p == getKV(root, db, key) IN ~p.threw => ProofShape(p)

\* C16 witness: an update returned a proof with a sibling on every level of
\* the deepest tree
C16_Witness ==
    /\ last.op = "update"
    /\ ~last.threw
    /\ depth = MaxDepth
    /\ Len(last.proof.siblings) = depth
    /\ PopCount(last.proof.enables) = depth

\* enables with bit b flipped
FlipBit(enables, b) ==
    IF Bit(enables, b) = 1 THEN enables - Pow2(b) ELSE enables + Pow2(b)

\* the proof p, with enables replaced by e, is accepted by verifyProof or
\* folds to the current root in the contract
Accepted(p, e) ==
    LET v == IF mode = "index"
             THEN verifyProof(root, depth, p.leaf, p.index, e, p.siblings)
             ELSE verifyProofKV(root, p.leaf, p.index, e, p.siblings)
        c == consumerComputeRoot(depth, ToBytes32(p.leaf), p.index, e,
                                 ToBytes32Array(p.siblings))
    IN  \/ (~v.threw /\ v.ok)
        \/ (c.revert = "" /\ c.ret = root)

\* C17: a proof that get returned is not accepted by verifyProof or by the
\* contract once any single bit of the enables word is flipped
C17_Sensitivity ==
    (last.op = "get" /\ ~last.threw) =>
        \A b \in 0..(UintBits - 1) : ~Accepted(last.proof, FlipBit(last.proof.enables, b))

\* get at slot s of the tree with root rt and store d, in either class
GetAt(rt, d, s) == IF mode = "index" THEN get(rt, d, depth, s) ELSE getKV(rt, d, Hex(s))

\* the proof get returns for slot s is accepted by verifyProof
Verifies(rt, d, s) ==
    LET p == GetAt(rt, d, s)
    IN  /\ ~p.threw
        /\ IF mode = "index"
           THEN verifyProof(rt, depth, p.leaf, p.index, p.enables, p.siblings).ok
           ELSE verifyProofKV(rt, p.leaf, p.index, p.enables, p.siblings).ok

\* the value get reads at slot s, Null if get throws or finds no leaf
Reads(rt, d, s) ==
    LET p == GetAt(rt, d, s) IN IF p.threw \/ ~p.exists THEN Null ELSE p.value

\* C18: an update that writes the value the slot already holds leaves the
\* root unchanged, and every slot that verified or could be read before the
\* call still verifies and reads the same value after it
C18_IdempotentUpdate ==
    [][(/\ last'.op = "update"
        /\ ~last'.threw
        /\ nOps' = nOps + 1
        /\ LET s == IF mode = "index" THEN last'.key ELSE ToNat(deserialise(last'.key).val)
           IN  Reads(root, db, s) = serialise(deserialise(last'.value).val))
       => (/\ root' = root
           /\ \A s \in Slots :
                  /\ Verifies(root, db, s) => Verifies(root', db', s)
                  /\ Reads(root, db, s) # Null => Reads(root', db', s) = Reads(root, db, s))]_vars

\* C18 witness: with two slots held, an update wrote the value that the proof
\* it returned shows the slot held before
C18_Witness ==
    /\ last.op = "update"
    /\ ~last.threw
    /\ Cardinality(Held) >= 2
    /\ last.proof.exists
    /\ last.proof.value = serialise(deserialise(last.value).val)
    /\ last.proof.siblings # <<>>

\* the serialised leaf digest slot s held before the call, by the history of
\* writes: 0 if none
LeafBefore(s) ==
    IF written[s] = Null THEN serialise(ZERO)
    ELSE IF mode = "index" THEN serialise(written[s])
    ELSE serialise(keccak(<<Num(s), written[s], Num(1)>>))

\* folding (leaf, p.index, p.enables, p.siblings) yields rt, in the engine
\* and in the contract
FoldsTo(rt, leaf, p) ==
    /\ IF mode = "index"
       THEN verifyProof(rt, depth, leaf, p.index, p.enables, p.siblings).ok
       ELSE verifyProofKV(rt, leaf, p.index, p.enables, p.siblings).ok
    /\ consumerComputeRoot(depth, ToBytes32(leaf), p.index, p.enables,
                           ToBytes32Array(p.siblings)) = Ok(rt)

\* C19: the UpdateProof of a successful insert or update carries the leaf
\* digest the slot held before the call (0 for an insert) and a path that
\* folds the old leaf to the root before the call and the new leaf to the
\* root after it
C19_UpdateProof ==
    [][(/\ last'.op \in {"insert", "update"}
        /\ ~last'.threw
        /\ nOps' = nOps + 1)
       => LET p == last'.proof
              s == IF mode = "index" THEN last'.key % Pow2(depth)
                   ELSE ToNat(deserialise(last'.key).val)
          IN  /\ p.leaf = LeafBefore(s)
              /\ last'.op = "insert" => p.leaf = serialise(ZERO)
              /\ FoldsTo(root, p.leaf, p)
              /\ FoldsTo(root', last'.newLeaf, p)]_vars

\* C20: the node store never has an entry keyed by the zero digest
C20_ZeroReserved == ZERO \notin DOMAIN db

\* the store entry under digest d is keyed by the hash of its own content
KeyedByContent(d) ==
    IF Len(db[d]) < 3 THEN d = keccak(<<db[d][1], db[d][2]>>)
    ELSE d = keccak(<<db[d][1], db[d][2], db[d][3]>>)

\* C21: every entry of the node store is keyed by the hash of its content:
\* hash(left, right) for an internal node, hash(key, value, 1) for a leaf
C21_StoreIntegrity == \A d \in DOMAIN db : KeyedByContent(d)

\* every nonzero digest reachable from digest n, lv levels below the root,
\* has its entry in store d: an inner node above level dp, a leaf record at it
RECURSIVE Closed(_, _, _, _)
Closed(d, dp, n, lv) ==
    \/ n = ZERO
    \/ /\ n \in DOMAIN d
       /\ IF lv = dp THEN Len(d[n]) = 3
          ELSE /\ Len(d[n]) = 2
               /\ Closed(d, dp, d[n][1], lv + 1)
               /\ Closed(d, dp, d[n][2], lv + 1)

\* C22: the store holds every node the tree under the root references, an
\* inner entry above the leaf level and a leaf record at the leaf level
C22_StoreClosure == Closed(db, depth, root, 0)

\* what a caller of get(s) observes of the slot itself: the outcome, exists,
\* leaf and value
Observed(rt, d, s) ==
    LET p == GetAt(rt, d, s) IN <<p.threw, p.exists, p.leaf, p.value>>

\* the slot a mutation addressed
SlotOf(call) ==
    IF mode = "index" THEN call.key ELSE ToNat(deserialise(call.key).val)

\* C23: a successful insert or update at slot i leaves exists, leaf and value
\* of get(j) unchanged for every other slot j
C23_Locality ==
    [][(/\ last'.op \in {"insert", "update"}
        /\ ~last'.threw
        /\ nOps' = nOps + 1)
       => \A j \in Slots \ {SlotOf(last')} :
              Observed(root', db', j) = Observed(root, db, j)]_vars

\* the leaf digest the tree holds at slot s: what get(s) returns as leaf
HeldLeaf(s) == deserialise(GetAt(root, db, s).leaf).val

\* the leaf index of slot s: the index itself, or the hash of the key
IndexOf(s) == IF mode = "index" THEN s ELSE ToNat(keccak(<<Num(s)>>))

\* digests a prover can put into a proof: zero and every digest of the store
ProofDigests == {ZERO} \cup DOMAIN db

\* sibling arrays of at most depth elements
ProofSiblings == UNION {[1..n -> {serialise(x) : x \in ProofDigests}] : n \in 0..depth}

\* verifyProof of the class in use accepts the tuple against the current root
AcceptsTuple(leaf, index, enables, siblings) ==
    IF mode = "index"
    THEN verifyProof(root, depth, leaf, index, enables, siblings).ok
    ELSE verifyProofKV(root, leaf, index, enables, siblings).ok

\* C24: against the current root, every tuple (leaf, i, enables, siblings)
\* that verifyProof accepts carries the digest the tree holds at i, 0 if the
\* slot is empty; so any two accepted tuples for one index carry the same leaf
C24_ProofBinding ==
    \A s \in Slots : \A x \in ProofDigests :
        \A e \in 0..(Pow2(depth) - 1) : \A sib \in ProofSiblings :
            AcceptsTuple(serialise(x), IndexOf(s), e, sib) => x = HeldLeaf(s)

\* the leaf digest at leaf position x of the tree the successful writes
\* describe: the value written at index x, or hash(key, value, 1) of the key
\* that hashes to x; 0 where nothing was written
WrittenLeaf(x) ==
    LET held == {s \in Held : IndexOf(s) = x}
    IN  IF held = {} THEN ZERO
        ELSE LET s == CHOOSE s \in held : TRUE
             IN  IF mode = "index" THEN written[s]
                 ELSE keccak(<<Num(s), written[s], Num(1)>>)

\* digest of the subtree of height h at position pos of that tree
RECURSIVE WrittenSubtree(_, _)
WrittenSubtree(h, pos) ==
    IF h = 0 THEN WrittenLeaf(pos)
    ELSE keccak(<<WrittenSubtree(h - 1, 2 * pos), WrittenSubtree(h - 1, 2 * pos + 1)>>)

\* digest of the sibling subtree k levels above leaf index
SiblingAt(index, k) ==
    LET pos == index \div Pow2(k)
    IN  WrittenSubtree(k, IF pos % 2 = 0 THEN pos + 1 ELSE pos - 1)

\* the enables word with bit k set exactly for the nonzero siblings at
\* levels k..depth-1
RECURSIVE WireEnables(_, _)
WireEnables(index, k) ==
    IF k >= depth THEN 0
    ELSE (IF SiblingAt(index, k) # ZERO THEN Pow2(k) ELSE 0) + WireEnables(index, k + 1)

\* the nonzero siblings at levels k..depth-1, nearest to the leaf first
RECURSIVE WireSiblings(_, _)
WireSiblings(index, k) ==
    IF k >= depth THEN <<>>
    ELSE (IF SiblingAt(index, k) # ZERO THEN <<serialise(SiblingAt(index, k))>> ELSE <<>>)
         \o WireSiblings(index, k + 1)

\* C25: in the proof get returns for a slot, bit k of enables is set exactly
\* when the sibling subtree k levels above the leaf is nonzero, no bit at or
\* above the depth is set, and siblings lists the nonzero siblings only, in
\* ascending k
C25_WireFormat ==
    \A s \in Slots :
        LET p == GetAt(root, db, s)
        IN  ~p.threw =>
                /\ p.enables = WireEnables(IndexOf(s), 0)
                /\ p.siblings = WireSiblings(IndexOf(s), 0)

\* the arguments of the last call make the contract's fold of the old leaf
\* return a root other than rt / return rt
OldRootDiffers(call, rt) ==
    LET a == call.proof
        old == IF call.op = "updateRoot"
               THEN consumerComputeRoot(scDepth, a.oldLeaf, a.index, a.enables, a.path)
               ELSE addressKeyedComputeRoot(depth, a.oldLeaf, call.key % Pow2(AddressBits),
                                            a.enables, a.siblings)
    IN  old.revert = "" /\ old.ret # rt

OldRootMatches(call, rt) ==
    LET a == call.proof
        old == IF call.op = "updateRoot"
               THEN consumerComputeRoot(scDepth, a.oldLeaf, a.index, a.enables, a.path)
               ELSE addressKeyedComputeRoot(depth, a.oldLeaf, call.key % Pow2(AddressBits),
                                            a.enables, a.siblings)
    IN  old.revert = "" /\ old.ret = rt

\* the root the contract's fold of the new leaf returns
NewRoot(call) ==
    LET a == call.proof
    IN  IF call.op = "updateRoot"
        THEN consumerComputeRoot(scDepth, a.newLeaf, a.index, a.enables, a.path)
        ELSE addressKeyedComputeRoot(depth, keccak256String(call.value),
                                     call.key % Pow2(AddressBits), a.enables, a.siblings)

\* C26: SMTConsumer.updateRoot and AddressKeyedSMT.update revert with
\* InvalidProof and leave the stored root unchanged when the fold of the old
\* leaf differs from the stored root, otherwise they store the fold of the
\* new leaf over the same path; the stored roots change in no other step
C26_RootGuard ==
    [][/\ last'.op = "updateRoot" =>
           /\ OldRootDiffers(last', scRoot) =>
                  (last'.revert = "InvalidProof" /\ scRoot' = scRoot)
           /\ OldRootMatches(last', scRoot) =>
                  (last'.revert = "" /\ Ok(scRoot') = NewRoot(last'))
       /\ last'.op = "AddressKeyedSMT.update" =>
           /\ OldRootDiffers(last', akRoot) =>
                  (last'.revert = "InvalidProof" /\ akRoot' = akRoot)
           /\ OldRootMatches(last', akRoot) =>
                  (last'.revert = "" /\ Ok(akRoot') = NewRoot(last'))
       /\ scRoot' # scRoot => (last'.op = "updateRoot" /\ last'.revert = "")
       /\ akRoot' # akRoot => (last'.op = "AddressKeyedSMT.update" /\ last'.revert = "")
      ]_vars

\* C26 witness: after a successful updateRoot, a call with a sibling whose
\* old leaf does not fold to the stored root was rejected with InvalidProof
C26_Witness ==
    /\ last.op = "updateRoot"
    /\ last.revert = "InvalidProof"
    /\ last.proof.path # <<>>
    /\ last.proof.enables # 0
    /\ scRoot # ZERO
    /\ depth = MaxDepth

\* exists at slot s, in either class
ExistsAt(s) ==
    IF mode = "index" THEN exists(root, db, depth, s) ELSE existsKV(root, db, Num(s))

\* C27: for every slot, exists and the exists field of get agree, and both
\* tell whether the slot was inserted
C27_ExistsAgreement ==
    \A s \in Slots :
        LET p == GetAt(root, db, s)
        IN  /\ ~p.threw
            /\ ExistsAt(s) = p.exists
            /\ ExistsAt(s) = (s \in Held)

\* what verifyProof returns for the arguments of call, computed from the
\* arguments, the depth dp and the root rt alone
VerdictOf(call, rt, dp) ==
    LET p == call.proof
    IN  IF mode = "index"
        THEN verifyProof(rt, dp, p.leaf, p.index, p.enables, p.siblings).ok
        ELSE verifyProofKV(rt, p.leaf, p.index, p.enables, p.siblings).ok

\* C28: get, exists and verifyProof leave the root and the store as they
\* were, and the verdict of verifyProof is a function of its arguments, the
\* depth and the root
C28_ReadsPure ==
    [][last'.op \in {"get", "exists", "verifyProof"} =>
           /\ root' = root
           /\ db' = db
           /\ depth' = depth
           /\ last'.op = "verifyProof" => last'.ok = VerdictOf(last', root, depth)]_vars

\* C28 witness: verifyProof accepted a proof with a sibling, read from a
\* store that holds two slots
C28_Witness ==
    /\ last.op = "verifyProof"
    /\ last.ok
    /\ last.proof.siblings # <<>>
    /\ Cardinality(Held) >= 2

\* leaves tried against a proof p: its own, zero and keccak256(0, 0)
AgreeLeaves(p) == {p.leaf, serialise(ZERO), serialise(KECCAK_0_0)}

\* sibling arrays tried against a proof p: its own, reversed, with a surplus
\* element, and with a zero listed first
AgreeSiblings(p) ==
    {p.siblings,
     [k \in 1..Len(p.siblings) |-> p.siblings[Len(p.siblings) + 1 - k]],
     p.siblings \o <<serialise(Num(1))>>,
     <<serialise(ZERO)>> \o p.siblings}

\* indices tried against a proof p: its own and the next one
AgreeIndices(p) == {p.index, (p.index + 1) % Pow2(depth)}

\* verifyProof of the tree returns true for the tuple
OffchainAccepts(leaf, index, enables, siblings) ==
    LET v == IF mode = "index"
             THEN verifyProof(root, depth, leaf, index, enables, siblings)
             ELSE verifyProofKV(root, leaf, index, enables, siblings)
    IN  ~v.threw /\ v.ok

\* the library's computeRoot returns the root of the tree for the tuple
OnchainAccepts(leaf, index, enables, siblings) ==
    computeRoot(depth, ToBytes32(leaf), index, enables, ToBytes32Array(siblings)) = Ok(root)

\* C29: for an index below 2^depth and at least as many siblings as the low
\* depth bits of enables have bits set, verifyProof of a tree with root R
\* returns true exactly when computeRoot returns R
C29_VerifiersAgree ==
    (last.op = "get" /\ ~last.threw) =>
        \A leaf \in AgreeLeaves(last.proof) : \A index \in AgreeIndices(last.proof) :
            \A enables \in Words : \A siblings \in AgreeSiblings(last.proof) :
                Len(siblings) >= PopCount(enables % Pow2(depth)) =>
                    (OffchainAccepts(leaf, index, enables, siblings)
                         <=> OnchainAccepts(leaf, index, enables, siblings))

\* C29 witness: both verifiers accept the proof get returned for a held slot
\* of the deepest tree, with a sibling on every level
C29_Witness ==
    /\ last.op = "get"
    /\ ~last.threw
    /\ last.proof.exists
    /\ depth = MaxDepth
    /\ Len(last.proof.siblings) = depth
    /\ OffchainAccepts(last.proof.leaf, last.proof.index, last.proof.enables,
                       last.proof.siblings)
    /\ OnchainAccepts(last.proof.leaf, last.proof.index, last.proof.enables,
                      last.proof.siblings)

\* C30: SMTConsumer holds the tree depth it was deployed with, whether that is
\* the depth of the tree (8, or 256 for the key-addressed tree) or one more
\* than the word width (257); deployed for the key-addressed tree its
\* updateRoot ends with the tree's root, and deployed with 257 its computeRoot
\* reverts with InvalidTreeDepth
C30_DepthKept ==
    /\ last.op = "deploy" => (last.revert = "" /\ scDepth = last.key)
    /\ (mode = "kv" /\ last.op = "updateRoot") =>
           (scDepth = SMT_DEPTH /\ last.revert = "" /\ scRoot = root)
    /\ (last.op = "computeRoot" /\ scDepth > UintBits) => last.revert = "InvalidTreeDepth"

\* the elements of pathElements[i..] that are not zero, in ascending i
RECURSIVE NonZeroElements(_, _)
NonZeroElements(pathElements, i) ==
    IF i > Len(pathElements) THEN <<>>
    ELSE (IF isPositive(pathElements[i]) THEN <<pathElements[i]>> ELSE <<>>)
         \o NonZeroElements(pathElements, i + 1)

\* C31: toProofArgs sets bit i of enables exactly when pathElements[i] is not
\* zero and returns the nonzero elements in ascending i, so that the path has
\* popcount(enables) elements, and the verifiers fold (leaf, index, enables,
\* path) to the root that the full pathElements give
C31_AdaptorCompression ==
    last.op = "toProofArgs" =>
        LET a == last.proof
            full == pathRoot(a.leaf, a.index, a.pathElements, 0)
        IN  /\ \A i \in 0..(Len(a.pathElements) - 1) :
                   (Bit(a.enables, i) = 1) <=> isPositive(a.pathElements[i + 1])
            /\ a.enables < Pow2(Len(a.pathElements))
            /\ a.path = NonZeroElements(a.pathElements, 1)
            /\ Len(a.path) = PopCount(a.enables)
            /\ last.revert = ""
            /\ last.ret = ToBytes32(full)
            /\ verifyProof(ToBytes32(full), depth, a.leaf, a.index, a.enables, a.path).ok

\* C31 witness: a path of the deepest tree with a zero element below a
\* nonzero one was compressed to one sibling
C31_Witness ==
    /\ last.op = "toProofArgs"
    /\ depth = MaxDepth
    /\ ~isPositive(last.proof.pathElements[1])
    /\ isPositive(last.proof.pathElements[depth])
    /\ Len(last.proof.path) = 1
    /\ last.proof.leaf # serialise(ZERO)
    /\ last.ret # ZERO

====
